---- MODULE Spec2Model ----
(***************************************************************************)
(* Batch matching of job applicants (rankitech-backend).                   *)
(*                                                                         *)
(* The model covers the two batch paths that rebuild the ranked matches of *)
(* a posting - the Celery task process_expired_job (with run_ai_matching)  *)
(* and the HTTP endpoint rank_job_applicants - the periodic dispatcher     *)
(* check_expired_jobs, the alternative notifier                            *)
(* process_expired_jobs_and_send_emails, and the application endpoints     *)
(* that produce the applications list the batch iterates.                  *)
(*                                                                         *)
(* Database semantics: every execution works in its own session.  Writes   *)
(* of a session (the DELETE of old matches, the added rows, the changed    *)
(* posting) become visible to the others at db.commit(); a session closed  *)
(* without commit is rolled back.  The DELETE acts on the rows that were   *)
(* committed when it was issued.  Rows are compared by value.              *)
(*                                                                         *)
(* What the environment decides is a nondeterministic input of the step   *)
(* it decides: the overall score of a resume, an exception in the          *)
(* per-candidate pipeline, a failing write of the temporary file, a broker *)
(* that refuses a message.  The latest resume of a consultant is fixed in  *)
(* the initial state.                                                      *)
(*                                                                         *)
(* Spec         one executor, all endpoints, the beat schedule             *)
(* SpecConc     two executors racing on one posting with one application   *)
(* SpecNotifier Spec plus matching_email_task, which no schedule starts    *)
(* SpecLive     the scheduled path of Spec under weak fairness of the beat *)
(*              tick and of the worker                                     *)
(* SpecMatch    the loop body seen from inside the matcher: one applicant  *)
(*              of one posting, from the stored posting to the scores      *)
(* SpecRerun    SpecMatch for two batch runs in succession                 *)
(* SpecExtract  extract_text on one file                                   *)
(* SpecParse    parse_resume on one text, and on the text with a further   *)
(*              phrase                                                     *)
(***************************************************************************)
EXTENDS Integers, Sequences, FiniteSets, Bags, TLC

(* ------------------------------ bounds --------------------------------- *)
\* most applications that are ever created
MaxApps == 2
\* overall scores are drawn from 1..MaxScore
MaxScore == 2
\* most process_expired_job messages waiting in the broker per posting
MaxQueue == 1
\* the per-candidate count of selection e-mails saturates here
MaxSent == 2
\* max_candidates of a posting is drawn from 1..MaxCand
MaxCand == 1
\* a posting requires at most MaxRequired and prefers at most MaxPreferred
\* skills; the text of a resume names at most MaxTextSkills skills
MaxRequired == 2
MaxPreferred == 1
MaxTextSkills == 1
\* the largest number of years found in a resume
MaxYears == 101
\* the largest score the model writes after a label
MaxReply == 250
\* a resume text has at most MaxWords words before a phrase is added
MaxWords == 3

(* --------------------------- program constants ------------------------- *)
\* .limit(5) of process_expired_jobs_and_send_emails
NotifierLimit == 5
\* the weights of calculate_match_score, in hundredths
WeightSkills == 35
WeightExperience == 25
WeightTextSimilarity == 20
WeightAiAnalysis == 20

Jobs == {"j1"}
Consultants == {"c1", "c2"}
\* executors: Celery worker processes and API request handlers
Execs == {"e1", "e2"}
Scores == 1..MaxScore
None == "None"

VARIABLES
    job,        \* Job rows: exists, status, email_sent, max_candidates, expired
    profile,    \* ConsultantProfile rows: does the profile of c exist
    resume,     \* file_data of the latest Resume of c: absent, empty, data
    apps,       \* JobApplication rows in id order: [job_id, consultant_id]
    matches,    \* committed RankedApplicantMatch rows (a bag)
    queue,      \* process_expired_job messages waiting in the broker
    run,        \* the executions: one record per executor
    selected,   \* selection e-mails dispatched per (posting, candidate)
    topmail,    \* candidates mailed by process_expired_jobs_and_send_emails
    matcher     \* one applicant's pass through the matching pipeline

vars == <<job, profile, resume, apps, matches, queue, run, selected, topmail,
          matcher>>

Min(a, b) == IF a <= b THEN a ELSE b

RECURSIVE SeqToBag(_)
SeqToBag(s) ==
    IF s = <<>> THEN EmptyBag ELSE SetToBag({Head(s)}) (+) SeqToBag(Tail(s))

\* the committed RankedApplicantMatch rows of posting j
MatchesOf(j) ==
    LET keep == {r \in BagToSet(matches) : r.job_id = j}
    IN  [r \in keep |-> matches[r]]

(* ------------------------------ sorting -------------------------------- *)
\* list.sort(key=match_score, reverse=True): stable, descending
RECURSIVE InsertDesc(_, _)
InsertDesc(x, s) ==
    IF s = <<>> THEN <<x>>
    ELSE IF Head(s).score >= x.score THEN <<Head(s)>> \o InsertDesc(x, Tail(s))
    ELSE <<x>> \o s

RECURSIVE SortDesc(_)
SortDesc(s) ==
    IF s = <<>> THEN <<>>
    ELSE InsertDesc(s[Len(s)], SortDesc(SubSeq(s, 1, Len(s) - 1)))

(* -------------------------- the matching engine ------------------------ *)
\* Strings are compared by value; str.lower() is the table below.  A stored
\* skills value is tagged: a list of strings (list), a non-empty string that
\* iterates as its characters (str), or null.  Scores are exact rationals:
\* a sub-score is a number of points or a fraction num/den of points, and a
\* rounded score is a number of hundredths of a point.

\* str(x).lower()
lower(x) ==
    CASE x = "Python" -> "python"
      [] x = "MID" -> "mid"
      [] x = "None" -> "none"
      [] OTHER -> x

LowerAll(s) == [i \in 1..Len(s) |-> lower(s[i])]

Elems(s) == {s[i] : i \in 1..Len(s)}

List(s) == [tag |-> "list", v |-> s]
Str(s) == [tag |-> "str", v |-> s]
Null == [tag |-> "null", v |-> <<>>]

\* the truth value of a stored skills value
Truthy(x) == x.tag # "null" /\ x.v # <<>>

\* a + b raises TypeError unless both are lists or both are strings
CanAdd(a, b) == a.tag = b.tag /\ a.tag \in {"list", "str"}

Add(a, b) == [tag |-> a.tag, v |-> a.v \o b.v]

\* round(num/den, 2) in hundredths of a point: the nearest one, the even one
\* of two that are equally near
Round2(num, den) ==
    LET q == (100 * num) \div den
        r == (100 * num) % den
    IN  IF 2 * r > den \/ (2 * r = den /\ q % 2 = 1) THEN q + 1 ELSE q

\* the share of the job skills found in the resume skills, in points num/den
_calculate_skills_match(resume_skills, job_skills) ==
    IF job_skills = <<>> THEN [num |-> 100, den |-> 1]
    ELSE LET resume_skills_lower == LowerAll(resume_skills)
             job_skills_lower == LowerAll(job_skills)
             found == Cardinality({i \in 1..Len(job_skills_lower) :
                            job_skills_lower[i] \in Elems(resume_skills_lower)})
         IN  [num |-> found * 100, den |-> Len(job_skills_lower)]

\* the band of an experience level label
experience_levels(experience_key) ==
    CASE experience_key = "entry" -> <<0, 2>>
      [] experience_key = "junior" -> <<1, 3>>
      [] experience_key = "mid" -> <<3, 6>>
      [] experience_key = "senior" -> <<6, 10>>
      [] experience_key = "lead" -> <<8, 15>>
      [] experience_key = "principal" -> <<10, 20>>
      [] OTHER -> <<0, 100>>

Max(a, b) == IF a >= b THEN a ELSE b

\* an experience match that looks the label up as it is written
ExperienceMatchCaseSensitive(candidate_years, experience_level) ==
    LET required_range == experience_levels(experience_level)
    IN  IF required_range[1] <= candidate_years
           /\ candidate_years <= required_range[2]
        THEN 100
        ELSE IF candidate_years < required_range[1]
        THEN Max(0, 100 - (required_range[1] - candidate_years) * 20)
        ELSE Max(70, 100 - (candidate_years - required_range[2]) * 5)

_calculate_experience_match(candidate_years, experience_level) ==
    LET required_range == experience_levels(lower(experience_level))
    IN  IF required_range[1] <= candidate_years
           /\ candidate_years <= required_range[2]
        THEN 100
        ELSE IF candidate_years < required_range[1]
        THEN Max(0, 100 - (required_range[1] - candidate_years) * 20)
        ELSE Max(70, 100 - (candidate_years - required_range[2]) * 5)

\* similarity * 100, or 50 when the vectorizer fails
_calculate_text_similarity(similarity) ==
    IF similarity.error THEN 50 ELSE similarity.points

\* generate_analysis: the reply of the model, or the placeholder when the
\* client raises
generate_analysis(reply) ==
    IF reply.error THEN [reply EXCEPT !.text = "unavailable"] ELSE reply

\* a parse that takes the number of the reply as it is
ParseAnalysisUnclamped(analysis) ==
    IF analysis.text # "OVERALL_FIT" THEN 0 ELSE analysis.number

\* overall_fit of the parsed reply: 0 unless the reply has the label
_parse_analysis(analysis) ==
    IF analysis.text # "OVERALL_FIT" THEN 0
    ELSE Min(100, Max(0, analysis.number))

\* additional_skills of the parsed reply: none unless the reply has the label
_parse_resume_analysis(analysis) ==
    IF analysis.text # "ADDITIONAL_SKILLS" THEN <<>> ELSE analysis.items

\* a gap analysis whose second comprehension tests the skills as written
AnalyzeSkillsGapAsWritten(resume_skills, required_skills) ==
    LET resume_skills_lower == LowerAll(resume_skills)
        required_skills_lower == LowerAll(required_skills)
    IN  [matching |-> SelectSeq(required_skills_lower,
                         LAMBDA skill : skill \in Elems(resume_skills_lower)),
         missing |-> SelectSeq(required_skills_lower,
                         LAMBDA skill : skill \notin Elems(resume_skills))]

_analyze_skills_gap(resume_skills, required_skills) ==
    LET resume_skills_lower == LowerAll(resume_skills)
        required_skills_lower == LowerAll(required_skills)
    IN  [matching |-> SelectSeq(required_skills_lower,
                         LAMBDA skill : skill \in Elems(resume_skills_lower)),
         missing |-> SelectSeq(required_skills_lower,
                         LAMBDA skill : skill \notin Elems(resume_skills_lower))]

\* ResumeParser.parse_resume: the skills found in the text, then those the
\* model adds
parse_resume(text, analysis) ==
    [skills |-> text.skills \o _parse_resume_analysis(analysis),
     total_experience_years |-> text.years]

\* MatchingEngine.calculate_match_score, defined when the two skills values
\* of job_desc can be added
calculate_match_score(resume_data, job_desc, similarity, analysis) ==
    LET skills_score ==
            _calculate_skills_match(resume_data.skills,
                Add(job_desc.required_skills, job_desc.preferred_skills).v)
        experience_score ==
            _calculate_experience_match(resume_data.total_experience_years,
                                        job_desc.experience_level)
        text_score == _calculate_text_similarity(similarity)
        overall_fit == _parse_analysis(analysis)
        rest == experience_score * WeightExperience
                    + text_score * WeightTextSimilarity
                    + overall_fit * WeightAiAnalysis
        gap == _analyze_skills_gap(resume_data.skills,
                                   job_desc.required_skills.v)
    IN  [overall_score |-> Round2(skills_score.num * WeightSkills
                                      + rest * skills_score.den,
                                  100 * skills_score.den),
         skills_match |-> Round2(skills_score.num, skills_score.den),
         experience_match |-> Round2(experience_score, 1),
         text_similarity |-> text_score,
         overall_fit |-> overall_fit,
         matching_skills |-> gap.matching,
         missing_skills |-> gap.missing]

(* ------------------------------- state --------------------------------- *)
\* an executor that runs nothing.  Fields of a run: pc (where it stands),
\* kind (task: process_expired_job, request: rank_job_applicants), job_id,
\* applications (consultant ids of the applications fetched at the start),
\* log (per iterated application: what the loop saw and did), deleted (the
\* rows its DELETE removed, pending), candidates (the appended results, which
\* are also the rows added to the session), ranking (the sorted list),
\* notified (the candidates it dispatched a selection e-mail to), tmp (a
\* temporary file of the run exists), result (how it ended), raised (the
\* statement whose exception ended it)
Idle ==
    [pc |-> "idle", kind |-> None, job_id |-> None, applications |-> <<>>,
     log |-> <<>>, deleted |-> EmptyBag, candidates |-> <<>>, ranking |-> <<>>,
     notified |-> <<>>, tmp |-> FALSE, result |-> None, raised |-> None]

\* no pipeline is looked into
NoMatcher == [pc |-> "off"]

\* new postings are active and unprocessed; nobody has applied; every
\* consultant has a profile and a latest resume that is absent, empty or not
Init ==
    /\ job \in [Jobs -> [exists : {TRUE}, status : {"active"},
                         email_sent : {FALSE}, max_candidates : 1..MaxCand,
                         expired : {FALSE}]]
    /\ profile = [c \in Consultants |-> TRUE]
    /\ resume \in [Consultants -> {"absent", "empty", "data"}]
    /\ apps = <<>>
    /\ matches = EmptyBag
    /\ queue = [j \in Jobs |-> 0]
    /\ run = [e \in {"e1"} |-> Idle]
    /\ selected = [j \in Jobs |-> [c \in Consultants |-> 0]]
    /\ topmail = [j \in Jobs |-> {}]
    /\ matcher = NoMatcher

\* two executors at work on a posting past its deadline that one consultant
\* has applied to with a resume
InitConc ==
    /\ job \in [Jobs -> [exists : {TRUE}, status : {"active"},
                         email_sent : {FALSE}, max_candidates : 1..MaxCand,
                         expired : {TRUE}]]
    /\ profile = [c \in Consultants |-> TRUE]
    /\ resume = [c \in Consultants |-> "data"]
    /\ apps = <<[job_id |-> "j1", consultant_id |-> "c1"]>>
    /\ matches = EmptyBag
    /\ queue = [j \in Jobs |-> 0]
    /\ run = [e \in Execs |-> Idle]
    /\ selected = [j \in Jobs |-> [c \in Consultants |-> 0]]
    /\ topmail = [j \in Jobs |-> {}]
    /\ matcher = NoMatcher

(* ------------------------ application endpoints ------------------------ *)
AppsOf(j) == SelectSeq(apps, LAMBDA a : a.job_id = j)

\* POST /apply: job and consultant exist, no application for the pair yet
apply_to_job(j, c) ==
    /\ Len(apps) < MaxApps
    /\ job[j].exists
    /\ profile[c]
    /\ ~ \E i \in 1..Len(apps) : apps[i].job_id = j /\ apps[i].consultant_id = c
    /\ apps' = Append(apps, [job_id |-> j, consultant_id |-> c])
    /\ UNCHANGED <<job, profile, resume, matches, queue, run, selected, topmail,
                   matcher>>

\* PUT /job_applications/{id}: j, c are the fields of the update (None: unset)
update_job_application(id, j, c) ==
    /\ id \in 1..Len(apps)
    /\ ~ (j = None /\ c = None)
    /\ j # None => job[j].exists
    /\ c # None => profile[c]
    /\ (j # None /\ c # None) =>
          ~ \E i \in 1..Len(apps) :
                i # id /\ apps[i].job_id = j /\ apps[i].consultant_id = c
    /\ apps' = [apps EXCEPT
                  ![id] = [job_id |-> IF j = None THEN @.job_id ELSE j,
                           consultant_id |->
                               IF c = None THEN @.consultant_id ELSE c]]
    /\ UNCHANGED <<job, profile, resume, matches, queue, run, selected, topmail,
                   matcher>>

\* DELETE /consultant_profiles/{id}
delete_consultant_profile(c) ==
    /\ profile[c]
    /\ profile' = [profile EXCEPT ![c] = FALSE]
    /\ UNCHANGED <<job, resume, apps, matches, queue, run, selected, topmail,
                   matcher>>

\* DELETE /jobs/{job_id}: the row of the posting goes, the rows of the other
\* tables stay.  Deletions while a batch run has the posting loaded are left
\* out.
delete_job(j) ==
    /\ job[j].exists
    /\ \A e \in DOMAIN run :
          run[e].job_id = j => run[e].pc \in {"idle", "done", "failed"}
    /\ job' = [job EXCEPT ![j].exists = FALSE]
    /\ UNCHANGED <<profile, resume, apps, matches, queue, run, selected, topmail,
                   matcher>>

\* datetime.utcnow() passes deadline_to_apply
DeadlinePasses(j) ==
    /\ job[j].exists
    /\ ~ job[j].expired
    /\ job' = [job EXCEPT ![j].expired = TRUE]
    /\ UNCHANGED <<profile, resume, apps, matches, queue, run, selected, topmail,
                   matcher>>

(* ---------------------------- the scheduler ---------------------------- *)
\* the postings check_expired_jobs selects
\* a filter that selects by the deadline alone
ExpiredByDeadlineOnly(j) == job[j].exists /\ job[j].expired

Expired(j) ==
    /\ job[j].exists
    /\ job[j].expired
    /\ ~ job[j].email_sent
    /\ job[j].status = "active"

\* one beat tick: process_expired_job.delay(job.id) for every selected posting
check_expired_jobs ==
    /\ \E j \in Jobs : Expired(j)
    /\ \A j \in Jobs : Expired(j) => queue[j] < MaxQueue
    /\ queue' = [j \in Jobs |-> IF Expired(j) THEN queue[j] + 1 ELSE queue[j]]
    /\ UNCHANGED <<job, profile, resume, apps, matches, run, selected, topmail,
                   matcher>>

(* --------------------------- the batch paths --------------------------- *)
Free(e) == run[e].pc \in {"idle", "done", "failed"}

ConsultantIds(j) ==
    LET a == AppsOf(j) IN [i \in 1..Len(a) |-> a[i].consultant_id]

\* the session is closed without commit: its pending writes are rolled back
Abort(e, stmt, leak) ==
    [Idle EXCEPT !.pc = "failed", !.kind = run[e].kind,
                 !.job_id = run[e].job_id, !.result = "error",
                 !.raised = stmt, !.tmp = leak]

Finished(e, res) == [run[e] EXCEPT !.pc = "done", !.result = res]

\* a test that forgets the flag
AlreadyProcessedByStatus(j) == job[j].status # "active"

\* the second test of process_expired_job
AlreadyProcessed(j) == job[j].email_sent \/ job[j].status # "active"

\* a worker takes process_expired_job(j) from the broker and runs it up to
\* the DELETE of run_ai_matching
process_expired_job(e, j) ==
    /\ Free(e)
    /\ queue[j] > 0
    /\ queue' = [queue EXCEPT ![j] = @ - 1]
    /\ LET r == [Idle EXCEPT !.kind = "task", !.job_id = j] IN
       IF ~ job[j].exists
       THEN /\ run' = [run EXCEPT ![e] = [r EXCEPT !.pc = "done",
                                                   !.result = "notfound"]]
            /\ UNCHANGED job
       ELSE IF AlreadyProcessed(j)
       THEN /\ run' = [run EXCEPT ![e] = [r EXCEPT !.pc = "done",
                                                   !.result = "already"]]
            /\ UNCHANGED job
       ELSE IF AppsOf(j) = <<>>
       THEN /\ job' = [job EXCEPT ![j].status = "closed",
                                  ![j].email_sent = TRUE]
            /\ run' = [run EXCEPT ![e] = [r EXCEPT !.pc = "done",
                                                   !.result = "noapplicants"]]
       ELSE /\ run' = [run EXCEPT ![e] =
                          [r EXCEPT !.pc = "loop",
                                    !.applications = ConsultantIds(j),
                                    !.deleted = MatchesOf(j)]]
            /\ UNCHANGED job
    /\ UNCHANGED <<profile, resume, apps, matches, selected, topmail, matcher>>

\* POST /rank-job-applicants up to the DELETE; 404 leaves no trace
rank_job_applicants(e, j) ==
    /\ Free(e)
    /\ job[j].exists
    /\ AppsOf(j) # <<>>
    /\ run' = [run EXCEPT ![e] =
                  [Idle EXCEPT !.kind = "request", !.job_id = j,
                               !.pc = "loop",
                               !.applications = ConsultantIds(j),
                               !.deleted = MatchesOf(j)]]
    /\ UNCHANGED <<job, profile, resume, apps, matches, queue, selected, topmail,
                   matcher>>

\* a skip test that forgets the empty resume
SkipsAbsentOnly(kind, p, r) ==
    IF kind = "task" THEN ~ p \/ r = "absent" ELSE r = "absent"

\* the loop's skip test: run_ai_matching also tests the consultant
Skips(kind, p, r) ==
    IF kind = "task" THEN ~ p \/ r = "absent" \/ r = "empty"
    ELSE r = "absent" \/ r = "empty"

\* the except clause prints consultant.id: it raises when there is no
\* consultant (p: the consultant's profile exists)
HandlerRaises(p) == ~ p

\* one iteration of the loop over the applications.  out is what the
\* environment makes of it: the write of the bytes fails (write_error), the
\* pipeline raises (raise), or it yields the overall score s (score)
Candidate(e, out, s) ==
    /\ run[e].pc = "loop"
    /\ Len(run[e].log) < Len(run[e].applications)
    /\ LET r == run[e]
           c == r.applications[Len(r.log) + 1]
           entry(o) == [consultant_id |-> c, profile |-> profile[c],
                        resume |-> resume[c], out |-> o]
       IN
       IF Skips(r.kind, profile[c], resume[c])
       THEN /\ out = "raise"
            /\ s = 1
            /\ run' = [run EXCEPT ![e].log = Append(@, entry("skip"))]
       ELSE IF out = "write_error"
       THEN /\ s = 1
            /\ run' = [run EXCEPT ![e] = Abort(e, "write", TRUE)]
       ELSE IF out = "raise" \/ ~ profile[c]
       THEN /\ out = "raise"
            /\ s = 1
            /\ IF HandlerRaises(profile[c])
               THEN run' = [run EXCEPT ![e] = Abort(e, "logging", FALSE)]
               ELSE run' = [run EXCEPT ![e].log = Append(@, entry("failed"))]
       ELSE run' = [run EXCEPT
                      ![e].log = Append(@, entry("ok")),
                      ![e].candidates =
                          Append(@, [consultant_id |-> c, score |-> s])]
    /\ UNCHANGED <<job, profile, resume, apps, matches, queue, selected, topmail,
                   matcher>>

Rows(j, cands) ==
    SeqToBag([i \in 1..Len(cands) |->
                 [job_id |-> j, consultant_id |-> cands[i].consultant_id,
                  score |-> cands[i].score]])

\* a rebuild without the DELETE
CommittedWithoutDelete(B, deleted, rows) == B (+) rows

\* the committed rows after db.commit() of a session that deleted and added
Committed(B, deleted, rows) == (B (-) deleted) (+) rows

\* a request that goes on as the task does
ReturnsResultsNever(kind) == FALSE

\* rank_job_applicants returns its results behind the commit and the sort
ReturnsResults(kind) == kind = "request"

\* db.commit() and the sort after the loop; process_expired_job closes the
\* posting when nothing was scored
Commit(e) ==
    /\ run[e].pc = "loop"
    /\ Len(run[e].log) = Len(run[e].applications)
    /\ LET r == run[e]
           j == r.job_id
           sorted == SortDesc(r.candidates)
       IN
       /\ matches' = Committed(matches, r.deleted, Rows(j, r.candidates))
       /\ IF ReturnsResults(r.kind)
          THEN /\ run' = [run EXCEPT ![e] = [r EXCEPT !.pc = "done",
                                                      !.deleted = EmptyBag,
                                                      !.ranking = sorted,
                                                      !.result = "returned"]]
               /\ UNCHANGED job
          ELSE IF sorted = <<>>
          THEN /\ run' = [run EXCEPT ![e] = [r EXCEPT !.pc = "done",
                                                      !.deleted = EmptyBag,
                                                      !.result = "novalid"]]
               /\ job' = [job EXCEPT ![j].status = "closed",
                                     ![j].email_sent = TRUE]
          ELSE /\ run' = [run EXCEPT ![e] = [r EXCEPT !.pc = "notify",
                                                      !.deleted = EmptyBag,
                                                      !.ranking = sorted]]
               /\ UNCHANGED job
    /\ UNCHANGED <<profile, resume, apps, queue, selected, topmail, matcher>>

\* a selected_count that forgets the cap
SelectedCountUncapped(n, max_candidates) == n

\* selected_count of process_expired_job
SelectedCount(n, max_candidates) == Min(n, max_candidates)

\* send_selection_email.delay for the next selected candidate; ok = FALSE:
\* the broker refuses the message and the task ends in its except clause
Notify(e, ok) ==
    /\ run[e].pc = "notify"
    /\ LET r == run[e]
           j == r.job_id
           n == SelectedCount(Len(r.ranking), job[j].max_candidates)
           c == r.ranking[Len(r.notified) + 1].consultant_id
       IN
       /\ Len(r.notified) < n
       /\ IF ok
          THEN /\ selected' = [selected EXCEPT ![j][c] = Min(@ + 1, MaxSent)]
               /\ run' = [run EXCEPT ![e].notified = Append(@, c)]
          ELSE /\ run' = [run EXCEPT ![e] = Abort(e, "dispatch", FALSE)]
               /\ UNCHANGED selected
    /\ UNCHANGED <<job, profile, resume, apps, matches, queue, topmail,
                   matcher>>

\* job.email_sent = True; job.status = "processed"; db.commit()
MarkProcessed(e) ==
    /\ run[e].pc = "notify"
    /\ LET r == run[e]
           j == r.job_id
       IN
       /\ Len(r.notified) =
              SelectedCount(Len(r.ranking), job[j].max_candidates)
       /\ job' = [job EXCEPT ![j].status = "processed",
                             ![j].email_sent = TRUE]
       /\ run' = [run EXCEPT ![e] = Finished(e, "processed")]
    /\ UNCHANGED <<profile, resume, apps, matches, queue, selected, topmail,
                   matcher>>

(* ------------------------ the alternative notifier -------------------- *)
RECURSIVE SumOver(_, _)
SumOver(f, S) ==
    IF S = {} THEN 0
    ELSE LET x == CHOOSE x \in S : TRUE IN f[x] + SumOver(f, S \ {x})

\* order_by(match_score.desc()).limit(k) over the rows of posting j: every
\* choice of k rows (all rows, if fewer) that leaves no higher-scored row out
TopMatches(j, k) ==
    LET B == MatchesOf(j)
        D == DOMAIN B
        n == Min(k, BagCardinality(B))
    IN  {f \in [D -> 0..n] :
            /\ \A r \in D : f[r] <= B[r]
            /\ SumOver(f, D) = n
            /\ \A r, q \in D : (f[r] > 0 /\ f[q] < B[q]) => r.score >= q.score}

\* the postings process_expired_jobs_and_send_emails selects
Unsent(j) == job[j].exists /\ job[j].expired /\ ~ job[j].email_sent

\* match.consultant.primary_email raises for a match without consultant
Orphans(f) == {r \in DOMAIN f : f[r] > 0 /\ ~ profile[r.consultant_id]}

\* the candidates mailed for the chosen rows f when no row is an orphan
Mailed(f) == {r.consultant_id : r \in {q \in DOMAIN f : f[q] > 0}}

\* the candidates that may have been mailed before the first orphan raised
MailedBefore(f) ==
    LET top == CHOOSE o \in Orphans(f) : \A q \in Orphans(f) : o.score >= q.score
        above == {r.consultant_id :
                     r \in {q \in DOMAIN f : f[q] > 0 /\ q.score > top.score}}
        beside == {r.consultant_id :
                      r \in {q \in DOMAIN f : /\ f[q] > 0
                                              /\ q.score = top.score
                                              /\ profile[q.consultant_id]}}
    IN  {above \cup X : X \in SUBSET beside}

\* matching_email_task: every selected posting gets its top matches mailed
\* and its flag set, until a match without consultant ends the loop
process_expired_jobs_and_send_emails ==
    /\ \E j \in Jobs : Unsent(j)
    /\ LET Q == {j \in Jobs : Unsent(j)} IN
       \E D \in SUBSET Q, pick \in [Q -> UNION {TopMatches(j, NotifierLimit) : j \in Q}] :
          /\ \A j \in Q : pick[j] \in TopMatches(j, NotifierLimit)
          /\ \A j \in D : Orphans(pick[j]) = {}
          /\ \/ /\ D = Q
                /\ topmail' = [j \in Jobs |->
                                 IF j \in D THEN topmail[j] \cup Mailed(pick[j])
                                 ELSE topmail[j]]
             \/ \E f \in Q \ D :
                   /\ Orphans(pick[f]) # {}
                   /\ \E part \in MailedBefore(pick[f]) :
                         topmail' = [j \in Jobs |->
                                       IF j \in D
                                       THEN topmail[j] \cup Mailed(pick[j])
                                       ELSE IF j = f THEN topmail[j] \cup part
                                       ELSE topmail[j]]
          /\ job' = [j \in Jobs |->
                       IF j \in D THEN [job[j] EXCEPT !.email_sent = TRUE]
                       ELSE job[j]]
    /\ UNCHANGED <<profile, resume, apps, matches, queue, run, selected,
                   matcher>>

\* the application and profile endpoints and the passing of time
Endpoints ==
    \/ \E j \in Jobs, c \in Consultants : apply_to_job(j, c)
    \/ \E id \in 1..MaxApps, j \in Jobs \cup {None}, c \in Consultants \cup {None} :
          update_job_application(id, j, c)
    \/ \E c \in Consultants : delete_consultant_profile(c)
    \/ \E j \in Jobs : delete_job(j)
    \/ \E j \in Jobs : DeadlinePasses(j)

\* the scheduler and the batch paths on the executors that exist
Batch ==
    \/ check_expired_jobs
    \/ \E e \in DOMAIN run, j \in Jobs : process_expired_job(e, j)
    \/ \E e \in DOMAIN run, j \in Jobs : rank_job_applicants(e, j)
    \/ \E e \in DOMAIN run, out \in {"write_error", "raise", "score"}, s \in Scores :
          Candidate(e, out, s)
    \/ \E e \in DOMAIN run : Commit(e)
    \/ \E e \in DOMAIN run, ok \in BOOLEAN : Notify(e, ok)
    \/ \E e \in DOMAIN run : MarkProcessed(e)

Next == Endpoints \/ Batch

\* one executor, every endpoint
Spec == Init /\ [][Next]_vars

\* two executors on a fixed applications list
SpecConc == InitConc /\ [][Batch]_vars

\* one executor, every endpoint, and matching_email_task
NextNotifier == Next \/ process_expired_jobs_and_send_emails

SpecNotifier == Init /\ [][NextNotifier]_vars

\* the steps of a Celery worker on process_expired_job
Worker ==
    \/ \E e \in DOMAIN run, j \in Jobs : process_expired_job(e, j)
    \/ \E e \in DOMAIN run, out \in {"write_error", "raise", "score"}, s \in Scores :
          Candidate(e, out, s)
    \/ \E e \in DOMAIN run : Commit(e)
    \/ \E e \in DOMAIN run, ok \in BOOLEAN : Notify(e, ok)
    \/ \E e \in DOMAIN run : MarkProcessed(e)

NextLive == Endpoints \/ check_expired_jobs \/ Worker

\* the scheduled path alone: beat fires check_expired_jobs again and again
\* and the worker goes on with whatever it can do
SpecLive ==
    /\ Init
    /\ [][NextLive]_vars
    /\ WF_vars(check_expired_jobs)
    /\ WF_vars(Worker)

(* ----------------------- one applicant's pipeline ---------------------- *)
\* The loop body of the batch paths seen from inside the matcher: the
\* JobDescription is built from the stored posting, then match_resume_to_job
\* extracts the resume's text, parses it, scores it and the loop appends the
\* result, or an exception of the pipeline is caught by the loop.

\* lists of at most n strings of S
RECURSIVE ListsUpTo(_, _)
ListsUpTo(S, n) ==
    IF n = 0 THEN {<<>>}
    ELSE LET shorter == ListsUpTo(S, n - 1)
         IN  shorter \cup {Append(l, x) : l \in shorter, x \in S}

SkillNames == {"python", "Python", "docker"}
PreferredNames == {"Python", "docker"}
LevelLabels == {"entry", "junior", "mid", "MID", "senior", "lead", "principal",
                None}
Years == {0, 1, 4, 9, MaxYears}

\* what the columns of a Job row can hold
StoredRequired ==
    {List(l) : l \in ListsUpTo(SkillNames, MaxRequired)} \cup {Null, Str(<<"R">>)}
StoredPreferred ==
    {List(l) : l \in ListsUpTo(PreferredNames, MaxPreferred)}
        \cup {Null, Str(<<"R">>)}

\* a resume: its text cannot be extracted, or the text has these skills of
\* the vocabulary and this largest number of years
Unreadable == [readable |-> FALSE, skills |-> <<>>, years |-> 0]
Resumes ==
    {Unreadable} \cup
    [readable : {TRUE}, skills : ListsUpTo(SkillNames, MaxTextSkills),
     years : Years]

\* what the model answers to the parsing prompt and to the analysis prompt,
\* and what the vectorizer yields
ParseReplies ==
    {[error |-> TRUE, text |-> "", items |-> <<>>],
     [error |-> FALSE, text |-> "ADDITIONAL_SKILLS", items |-> <<"docker">>]}
AnalyzeReplies ==
    {[error |-> TRUE, text |-> "", number |-> 0]} \cup
    [error : {FALSE}, text : {"OVERALL_FIT"}, number : {85, MaxReply}]
Similarities ==
    {[error |-> TRUE, points |-> 0]} \cup [error : {FALSE}, points : {0, 100}]

\* no earlier run on the posting
NoRun == [out |-> "none"]

InitMatch ==
    /\ job = [j \in Jobs |-> [exists |-> TRUE, status |-> "active",
                              email_sent |-> FALSE, max_candidates |-> 1,
                              expired |-> TRUE]]
    /\ profile = [c \in Consultants |-> TRUE]
    /\ resume = [c \in Consultants |-> "data"]
    /\ apps = <<[job_id |-> "j1", consultant_id |-> "c1"]>>
    /\ matches = EmptyBag
    /\ queue = [j \in Jobs |-> 0]
    /\ run = [e \in {"e1"} |-> Idle]
    /\ selected = [j \in Jobs |-> [c \in Consultants |-> 0]]
    /\ topmail = [j \in Jobs |-> {}]
    /\ matcher \in [pc : {"new"},
                    posting : [required_skills : StoredRequired,
                               preferred_skills : StoredPreferred,
                               experience_level : LevelLabels],
                    resume : Resumes,
                    previous : {NoRun}]

\* a few postings and resumes, to be run twice
InitRerun ==
    /\ InitMatch
    /\ matcher.posting.required_skills
           \in {List(<<"python", "docker">>), Str(<<"R">>)}
    /\ matcher.posting.preferred_skills = Null
    /\ matcher.posting.experience_level = "mid"
    /\ matcher.resume \in {Unreadable,
                           [readable |-> TRUE, skills |-> <<"Python">>,
                            years |-> 4]}

\* job_input of run_ai_matching (task) and of rank_job_applicants (request)
job_input(kind, posting) ==
    IF kind = "task"
    THEN [required_skills |->
              IF Truthy(posting.required_skills)
              THEN posting.required_skills ELSE List(<<>>),
          preferred_skills |->
              IF Truthy(posting.preferred_skills)
              THEN posting.preferred_skills ELSE List(<<>>),
          experience_level |->
              IF posting.experience_level = None
              THEN "Any" ELSE posting.experience_level]
    ELSE [required_skills |->
              IF posting.required_skills.tag = "list"
              THEN posting.required_skills ELSE List(<<>>),
          preferred_skills |->
              IF posting.preferred_skills.tag = "list"
              THEN posting.preferred_skills ELSE List(<<>>),
          experience_level |-> posting.experience_level]

\* a batch run of either kind builds the JobDescription of the posting
JobInput(kind) ==
    /\ matcher.pc = "new"
    /\ matcher' = [pc |-> "input", kind |-> kind, posting |-> matcher.posting,
                   resume |-> matcher.resume, previous |-> matcher.previous,
                   job_input |-> job_input(kind, matcher.posting)]
    /\ UNCHANGED <<job, profile, resume, apps, matches, queue, run, selected,
                   topmail>>

\* how the loop body ends for the applicant: out is ok (row added, candidate
\* appended) or failed (the loop's except clause caught raised); errors tells
\* which of the model's calls and whether the vectorizer failed
Ended(out, raised, errors, resume_data, result) ==
    [pc |-> out, kind |-> matcher.kind, posting |-> matcher.posting,
     resume |-> matcher.resume, previous |-> matcher.previous,
     job_input |-> matcher.job_input,
     raised |-> raised, errors |-> errors, resume_data |-> resume_data,
     result |-> result]

\* matcher.match_resume_to_job(tmp_file_path, job_input) in the loop's try:
\* extract_text, parse_resume with the model's reply to the parsing prompt,
\* calculate_match_score with the vectorizer's similarity and the model's
\* reply to the analysis prompt
match_resume_to_job(parsing, similarity, analysis) ==
    /\ matcher.pc = "input"
    /\ LET job_desc == matcher.job_input
           errors == [parsing |-> parsing.error,
                      similarity |-> similarity.error,
                      analysis |-> analysis.error]
           resume_data ==
               parse_resume(matcher.resume, generate_analysis(parsing))
       IN
       IF ~ matcher.resume.readable
       THEN matcher' = Ended("failed", "ValueError", None, None, None)
       ELSE IF ~ CanAdd(job_desc.required_skills, job_desc.preferred_skills)
       THEN matcher' = Ended("failed", "TypeError", errors, resume_data, None)
       ELSE matcher' = Ended("ok", None, errors, resume_data,
                          calculate_match_score(resume_data, job_desc,
                              similarity, generate_analysis(analysis)))
    /\ UNCHANGED <<job, profile, resume, apps, matches, queue, run, selected,
                   topmail>>

NextMatch ==
    \/ \E kind \in {"task", "request"} : JobInput(kind)
    \/ \E parsing \in ParseReplies, similarity \in Similarities,
          analysis \in AnalyzeReplies :
              match_resume_to_job(parsing, similarity, analysis)

\* one applicant of one posting, every stored posting and resume
SpecMatch == InitMatch /\ [][NextMatch]_vars

\* the next batch run on the same posting, applications and resumes: the
\* DELETE of the batch leaves of the earlier run only what previous keeps for
\* the comparison
Rerun ==
    /\ matcher.pc \in {"ok", "failed"}
    /\ matcher.previous = NoRun
    /\ matcher' = [pc |-> "new", posting |-> matcher.posting,
                   resume |-> matcher.resume,
                   previous |-> [out |-> matcher.pc, kind |-> matcher.kind,
                                 result |-> matcher.result]]
    /\ UNCHANGED <<job, profile, resume, apps, matches, queue, run, selected,
                   topmail>>

NextRerun == NextMatch \/ Rerun

\* two batch runs in succession
SpecRerun == InitRerun /\ [][NextRerun]_vars

(* --------------------------- reading the resume ------------------------ *)
\* process_resume seen from inside: extract_text reads the temporary file
\* with two libraries, parse_resume turns the text into the resume data.
\* A text is a string of the table of strip (extraction) or a list of words
\* (parsing).

\* the batch is not looked into
Quiet ==
    /\ job = [j \in Jobs |-> [exists |-> TRUE, status |-> "active",
                              email_sent |-> FALSE, max_candidates |-> 1,
                              expired |-> TRUE]]
    /\ profile = [c \in Consultants |-> TRUE]
    /\ resume = [c \in Consultants |-> "data"]
    /\ apps = <<[job_id |-> "j1", consultant_id |-> "c1"]>>
    /\ matches = EmptyBag
    /\ queue = [j \in Jobs |-> 0]
    /\ run = [e \in {"e1"} |-> Idle]
    /\ selected = [j \in Jobs |-> [c \in Consultants |-> 0]]
    /\ topmail = [j \in Jobs |-> {}]

\* str.strip()
strip(x) ==
    CASE x = "  " -> ""
      [] x = " cv " -> "cv"
      [] x = "cv  " -> "cv"
      [] OTHER -> x

\* what a library makes of the pages: it raises, or it yields a text
PageTexts == {"", "  ", "cv", " cv ", "cv  "}
Extractions ==
    {[raises |-> TRUE, text |-> ""]} \cup [raises : {FALSE}, text : PageTexts]

\* the file at pdf_path: is it there, and what each library makes of it
Files == [exists : BOOLEAN, pymupdf : Extractions, pypdf2 : Extractions]

\* both methods return "" from their except clause
extract_with_pymupdf(file) ==
    IF file.pymupdf.raises THEN "" ELSE file.pymupdf.text

extract_with_pypdf2(file) ==
    IF file.pypdf2.raises THEN "" ELSE file.pypdf2.text

\* a test that forgets the strip
NoTextIfEmpty(text) == text = ""

\* not text.strip()
NoText(text) == strip(text) = ""

\* PDFExtractor.extract_text: calls lists the methods it called
extract_text(file) ==
    IF ~ file.exists
    THEN [out |-> "raised", raised |-> "FileNotFoundError", calls |-> <<>>,
          text |-> ""]
    ELSE LET first == extract_with_pymupdf(file)
             text == IF NoText(first) THEN extract_with_pypdf2(file) ELSE first
             calls == IF NoText(first) THEN <<"pymupdf", "pypdf2">>
                      ELSE <<"pymupdf">>
         IN  IF NoText(text)
             THEN [out |-> "raised", raised |-> "ValueError", calls |-> calls,
                   text |-> ""]
             ELSE [out |-> "returned", raised |-> None, calls |-> calls,
                   text |-> strip(text)]

InitExtract ==
    /\ Quiet
    /\ matcher \in [pc : {"file"}, file : Files]

\* self.pdf_extractor.extract_text(pdf_path) of process_resume
ExtractText ==
    /\ matcher.pc = "file"
    /\ matcher' = [pc |-> "extracted", file |-> matcher.file,
                   extraction |-> extract_text(matcher.file)]
    /\ UNCHANGED <<job, profile, resume, apps, matches, queue, run, selected,
                   topmail>>

NextExtract == ExtractText

\* one file, every outcome of the two libraries
SpecExtract == InitExtract /\ [][NextExtract]_vars

\* the words a resume text is made of
Words == {"Python", "python", "html", "experience", "years", "2", "10.5",
          "and"}

\* str.upper()
upper(x) ==
    CASE x = "html" -> "HTML"
      [] x = "Python" -> "PYTHON"
      [] x = "python" -> "PYTHON"
      [] OTHER -> x

\* the vocabulary: the words of skill_patterns and of common_skills that the
\* texts can name
skill_patterns == {"Python"}
common_skills == {"HTML"}

\* extract_skills before list(skills): re.findall with re.IGNORECASE yields
\* the words as the text writes them, a common skill is added as the
\* vocabulary writes it
extract_skills(text) ==
    {text[i] : i \in {k \in 1..Len(text) :
                         \E p \in skill_patterns : lower(text[k]) = lower(p)}}
    \cup {k \in common_skills :
             \E i \in 1..Len(text) : upper(text[i]) = upper(k)}

\* list(skills): the elements of the set in some order
Orders(S) ==
    {l \in ListsUpTo(S, Cardinality(S)) :
        Len(l) = Cardinality(S) /\ Elems(l) = S}

IsNumber(w) == w \in {"2", "10.5"}
IsUnit(w) == w = "years"
IsKeyword(w) == w = "experience"

\* float(match), in tenths of a year
float(w) ==
    CASE w = "2" -> 20
      [] w = "5" -> 50
      [] w = "10.5" -> 105

\* what (\d+) captures of a number that the unit follows: the digits after
\* the last character that is no digit
LastDigits(w) == IF w = "10.5" THEN "5" ELSE w

At(s, i) == IF i \in 1..Len(s) THEN s[i] ELSE ""

\* re.findall of the three experience_patterns from word i on: matches do
\* not overlap, the search goes on behind a match.  Pattern 1: number, unit,
\* keyword
RECURSIVE FindAll1(_, _)
FindAll1(s, i) ==
    IF i > Len(s) THEN <<>>
    ELSE IF IsNumber(s[i]) /\ IsUnit(At(s, i + 1)) /\ IsKeyword(At(s, i + 2))
    THEN <<s[i]>> \o FindAll1(s, i + 3)
    ELSE FindAll1(s, i + 1)

\* pattern 2: keyword, as little as possible (.*?), number, unit
RECURSIVE FindAll2(_, _)
FindAll2(s, i) ==
    IF i > Len(s) THEN <<>>
    ELSE LET hits == {k \in (i + 1)..Len(s) :
                         IsNumber(s[k]) /\ IsUnit(At(s, k + 1))}
         IN  IF IsKeyword(s[i]) /\ hits # {}
             THEN LET k == CHOOSE k \in hits : \A h \in hits : k <= h
                  IN  <<s[k]>> \o FindAll2(s, k + 2)
             ELSE FindAll2(s, i + 1)

\* pattern 3: whole number, unit
RECURSIVE FindAll3(_, _)
FindAll3(s, i) ==
    IF i > Len(s) THEN <<>>
    ELSE IF IsNumber(s[i]) /\ IsUnit(At(s, i + 1))
    THEN <<LastDigits(s[i])>> \o FindAll3(s, i + 2)
    ELSE FindAll3(s, i + 1)

\* the list years of calculate_experience_years
captured(text) ==
    LET s == LowerAll(text)
        found == FindAll1(s, 1) \o FindAll2(s, 1) \o FindAll3(s, 1)
    IN  [i \in 1..Len(found) |-> float(found[i])]

\* max(years) if years else 0.0, in tenths of a year
calculate_experience_years(text) ==
    LET years == captured(text)
    IN  IF years = <<>> THEN 0
        ELSE CHOOSE y \in Elems(years) : \A z \in Elems(years) : y >= z

\* what the model answers to the parsing prompt of these texts
TextReplies ==
    {[error |-> TRUE, text |-> "", items |-> <<>>],
     [error |-> FALSE, text |-> "ADDITIONAL_SKILLS", items |-> <<"python">>]}

\* phrases that the patterns match
Phrases == {<<"2", "years">>, <<"experience", "2", "years">>}

\* no earlier version of the text
NoText0 == [out |-> "none"]

InitParse ==
    /\ Quiet
    /\ matcher \in [pc : {"text"}, text : ListsUpTo(Words, MaxWords),
                    earlier : {NoText0}]

\* self.resume_parser.parse_resume(text) of process_resume: order is the
\* order list(skills) gives the extracted skills, parsing the model's reply;
\* total_experience_years is in tenths of a year here
ParseResume(order, parsing) ==
    /\ matcher.pc = "text"
    /\ matcher' =
          [pc |-> "parsed", text |-> matcher.text, earlier |-> matcher.earlier,
           extracted |-> extract_skills(matcher.text),
           additional |-> _parse_resume_analysis(generate_analysis(parsing)),
           resume_data |->
               parse_resume([skills |-> order,
                             years |-> calculate_experience_years(matcher.text)],
                            generate_analysis(parsing))]
    /\ UNCHANGED <<job, profile, resume, apps, matches, queue, run, selected,
                   topmail>>

\* the consultant uploads the resume again with a further phrase after
\* word i; the phrase does not part a number from its unit
AddPhrase(i, phrase) ==
    /\ matcher.pc = "parsed"
    /\ matcher.earlier = NoText0
    /\ i \in 0..Len(matcher.text)
    /\ ~ (IsNumber(At(matcher.text, i)) /\ IsUnit(At(matcher.text, i + 1)))
    /\ matcher' =
          [pc |-> "text",
           text |-> SubSeq(matcher.text, 1, i) \o phrase
                       \o SubSeq(matcher.text, i + 1, Len(matcher.text)),
           earlier |-> [out |-> "parsed", text |-> matcher.text,
                        years |-> matcher.resume_data.total_experience_years]]
    /\ UNCHANGED <<job, profile, resume, apps, matches, queue, run, selected,
                   topmail>>

NextParse ==
    \/ \E order \in Orders(extract_skills(matcher.text)),
          parsing \in TextReplies : ParseResume(order, parsing)
    \/ \E i \in 0..MaxWords, phrase \in Phrases : AddPhrase(i, phrase)

\* one resume text, parsed, extended by a phrase and parsed again
SpecParse == InitParse /\ [][NextParse]_vars

(* ------------------------------- claims -------------------------------- *)
\* the run of e has come back from its commit with a ranking
Ranked(e) ==
    run[e].pc = "notify" \/ run[e].result \in {"returned", "novalid", "processed"}

Count(s, Test(_)) == Cardinality({i \in 1..Len(s) : Test(s[i])})

\* C1: the committed store holds at most one RankedApplicantMatch row per
\* (job_id, consultant_id) pair
C1_OneMatchPerPair ==
    \A r \in BagToSet(matches) :
        /\ matches[r] = 1
        /\ \A q \in BagToSet(matches) :
              (q.job_id = r.job_id /\ q.consultant_id = r.consultant_id) => q = r

\* C2: no exception raised while one applicant is processed (in the pipeline
\* or while the failure is logged) ends a batch run before its commit
C2_CandidateErrorsContained ==
    \A e \in DOMAIN run :
        run[e].pc = "failed" => run[e].raised \notin {"pipeline", "logging"}

\* C3: no two executions are between their DELETE and their commit for the
\* same posting
C3_OneRunPerPosting ==
    \A e1, e2 \in DOMAIN run :
        (e1 # e2 /\ run[e1].pc = "loop" /\ run[e2].pc = "loop")
            => run[e1].job_id # run[e2].job_id

\* C4: a status only changes from active, to closed or processed; it becomes
\* processed only by a run that scored and notified at least one candidate,
\* and closed only by a run without applications or without a scored candidate
C4_StatusLifecycle ==
    [][\A j \in Jobs :
          job'[j].status # job[j].status =>
              /\ job[j].status = "active"
              /\ job'[j].status \in {"closed", "processed"}
              /\ job'[j].status = "processed" =>
                    \E e \in DOMAIN run :
                        /\ run'[e].result = "processed"
                        /\ run[e].pc = "notify"
                        /\ Len(run[e].ranking) >= 1
                        /\ Len(run[e].notified) >= 1
              /\ job'[j].status = "closed" =>
                    \E e \in DOMAIN run :
                        /\ run'[e].result \in {"noapplicants", "novalid"}
                        /\ run'[e].ranking = <<>>]_vars

\* C5: every dispatch of a selection e-mail is the first one to that
\* candidate for that posting and happens while the posting's flag is unset
C5_NotifiedOnce ==
    [][\A j \in Jobs, c \in Consultants :
          selected'[j][c] > selected[j][c] =>
              (selected[j][c] = 0 /\ ~ job[j].email_sent)]_vars

\* C6: the step that ends a scheduled run normally finds the selection
\* e-mails dispatched to exactly the first min(len(ranking), max_candidates)
\* entries of the ranking, none of the other entries scoring higher than a
\* notified one, and marks the posting processed
C6_TopNotified ==
    [][\A e \in DOMAIN run :
          (run'[e].result = "processed" /\ run[e].result # "processed") =>
              LET r == run'[e]
                  j == r.job_id
                  n == Min(Len(r.ranking), job'[j].max_candidates)
              IN  /\ r.kind = "task"
                  /\ r.notified = [i \in 1..n |-> r.ranking[i].consultant_id]
                  /\ \A i \in 1..Len(r.ranking), k \in 1..n :
                        i > n => r.ranking[i].score <= r.ranking[k].score
                  /\ job'[j].status = "processed"
                  /\ job'[j].email_sent]_vars

\* a scheduled run ended normally with more ranked candidates than it
\* notified, the notified one scoring strictly higher
C6_Witness ==
    \E e \in DOMAIN run :
        /\ run[e].result = "processed"
        /\ Len(run[e].notified) >= 1
        /\ Len(run[e].ranking) > Len(run[e].notified)
        /\ run[e].candidates # run[e].ranking

\* C7: the candidates mailed for a posting, on either notification path, are
\* at most max_candidates
C7_AtMostMaxCandidates ==
    \A j \in Jobs :
        Cardinality({c \in Consultants : selected[j][c] > 0 \/ c \in topmail[j]})
            <= job[j].max_candidates

\* C8 as stated: applicants without resume content are skipped and the
\* ranking is as long as the number of applicants with a non-empty resume
C8_LengthIsResumeCount ==
    \A e \in DOMAIN run :
        Ranked(e) =>
            /\ \A i \in 1..Len(run[e].log) :
                  run[e].log[i].resume # "data" => run[e].log[i].out = "skip"
            /\ Len(run[e].ranking) =
                  Count(run[e].log, LAMBDA x : x.resume = "data")

\* C8 amended: applicants without resume content are skipped and add no row;
\* the ranking holds, in order of iteration, the applicants with a consultant
\* record and a non-empty resume whose pipeline did not raise, so it is at
\* most as long as the number of applicants with a non-empty resume
C8_LengthIsScoredCount ==
    \A e \in DOMAIN run :
        Ranked(e) =>
            LET log == run[e].log
                ok == SelectSeq(log, LAMBDA x : x.out = "ok")
            IN  /\ Len(log) = Len(run[e].applications)
                /\ \A i \in 1..Len(log) :
                      /\ log[i].resume # "data" => log[i].out = "skip"
                      /\ (log[i].resume = "data" /\ log[i].profile)
                            => log[i].out \in {"ok", "failed"}
                      /\ log[i].out = "ok"
                            => (log[i].resume = "data" /\ log[i].profile)
                /\ [i \in 1..Len(ok) |-> ok[i].consultant_id] =
                      [i \in 1..Len(run[e].candidates) |->
                          run[e].candidates[i].consultant_id]
                /\ Len(run[e].ranking) = Len(ok)
                /\ Len(run[e].ranking) <=
                      Count(log, LAMBDA x : x.resume = "data")

\* a run came back having skipped an applicant without resume content and
\* having lost one with a resume to an exception
C8_Witness ==
    \E e \in DOMAIN run :
        /\ Ranked(e)
        /\ \E i \in 1..Len(run[e].log) :
              run[e].log[i].resume # "data" /\ run[e].log[i].out = "skip"
        /\ \E i \in 1..Len(run[e].log) :
              run[e].log[i].resume = "data" /\ run[e].log[i].out = "failed"

\* C9: a returned ranking is ordered by score descending, holds every scored
\* candidate exactly once, and keeps the iteration order among equal scores
C9_SortedOnceStable ==
    \A e \in DOMAIN run :
        Ranked(e) =>
            LET r == run[e].ranking
                c == run[e].candidates
                pos(x) == CHOOSE i \in 1..Len(r) : r[i] = x
            IN  /\ \A i \in 1..Len(r) - 1 : r[i].score >= r[i + 1].score
                /\ Len(r) = Len(c)
                /\ \A i \in 1..Len(c) :
                      Cardinality({k \in 1..Len(r) :
                          r[k].consultant_id = c[i].consultant_id}) = 1
                /\ \A i, k \in 1..Len(c) :
                      (i < k /\ c[i].score = c[k].score) => pos(c[i]) < pos(c[k])

\* C10: no temporary file of a run exists once the run has ended
C10_NoTempFileLeft ==
    \A e \in DOMAIN run : run[e].pc \in {"done", "failed"} => ~ run[e].tmp

\* the applicant was scored against a posting whose skills are lists
Scored == matcher.pc = "ok" /\ matcher.posting.required_skills.tag = "list"

\* the required skills of the posting that the candidate has, whatever the
\* case of the letters
Has(skill) ==
    \E i \in 1..Len(matcher.resume_data.skills) :
        lower(matcher.resume_data.skills[i]) = lower(skill)

\* C11: for a posting with required skills, skills_match is the share of the
\* required skills the candidate has, times 100, whatever the preferred
\* skills are, and it is 100 exactly when no required skill is missing
C11_SkillsMatchRequiredOnly ==
    (Scored /\ matcher.posting.required_skills.v # <<>>) =>
        LET required == matcher.posting.required_skills.v
            found == Cardinality({i \in 1..Len(required) : Has(required[i])})
        IN  /\ matcher.result.skills_match = Round2(found * 100, Len(required))
            /\ matcher.result.skills_match = 10000
                   <=> matcher.result.missing_skills = <<>>

\* C12: for a posting without required skills, skills_match is 100
C12_NoRequiredSkillsIsFullMatch ==
    (Scored /\ matcher.posting.required_skills.v = <<>>) =>
        matcher.result.skills_match = 10000

\* C13: matching_skills and missing_skills share no skill, together they are
\* the required skills of the posting (letters compared in lower case), and
\* each lists its skills in the order the posting declares them
C13_SkillsGapPartition ==
    matcher.pc = "ok" =>
        LET required == LowerAll(matcher.job_input.required_skills.v)
            matching == matcher.result.matching_skills
            missing == matcher.result.missing_skills
        IN  /\ Elems(LowerAll(matching)) \cap Elems(LowerAll(missing)) = {}
            /\ Elems(LowerAll(matching)) \cup Elems(LowerAll(missing))
                   = Elems(required)
            /\ matching = SelectSeq(required, LAMBDA x : x \in Elems(matching))
            /\ missing = SelectSeq(required, LAMBDA x : x \in Elems(missing))

\* a candidate has one required skill, written in another case than the
\* posting writes it, and lacks another
C13_Witness ==
    /\ Scored
    /\ matcher.result.matching_skills # <<>>
    /\ matcher.result.missing_skills # <<>>
    /\ \E i \in 1..Len(matcher.posting.required_skills.v) :
          LET skill == matcher.posting.required_skills.v[i]
          IN  Has(skill) /\ skill \notin Elems(matcher.resume_data.skills)

\* C14: the overall score and the reported sub-scores of every scored
\* candidate are within 0..100 points, whichever sub-score was defaulted
C14_OverallInRange ==
    matcher.pc = "ok" =>
        /\ matcher.result.overall_score \in 0..10000
        /\ matcher.result.skills_match \in 0..10000
        /\ matcher.result.experience_match \in 0..10000
        /\ matcher.result.text_similarity \in 0..100
        /\ matcher.result.overall_fit \in 0..100

\* a candidate was scored although the vectorizer failed and the model was
\* unavailable for the analysis
C14_Witness ==
    /\ matcher.pc = "ok"
    /\ matcher.errors.similarity
    /\ matcher.errors.analysis
    /\ matcher.result.text_similarity = 50
    /\ matcher.result.overall_fit = 0

\* the band table of the experience levels as the specification gives it
Band(label) ==
    CASE label = "entry" -> [min |-> 0, max |-> 2]
      [] label = "junior" -> [min |-> 1, max |-> 3]
      [] label = "mid" -> [min |-> 3, max |-> 6]
      [] label = "senior" -> [min |-> 6, max |-> 10]
      [] label = "lead" -> [min |-> 8, max |-> 15]
      [] label = "principal" -> [min |-> 10, max |-> 20]
      [] OTHER -> [min |-> 0, max |-> 100]

KnownLabels == {"entry", "junior", "mid", "senior", "lead", "principal"}

\* experience_match by the band table, in points
ByBand(years, label) ==
    LET band == Band(lower(label))
    IN  IF band.min <= years /\ years <= band.max THEN 100
        ELSE IF years < band.min THEN Max(0, 100 - 20 * (band.min - years))
        ELSE Max(70, 100 - 5 * (years - band.max))

\* C15 as stated: experience_match follows the band table (for mid: 100 at 4
\* years, 60 at 1 year, 85 at 9 years) and is 100 for every candidate of a
\* posting whose label is unknown
C15_ExperienceBands ==
    matcher.pc = "ok" =>
        LET years == matcher.resume_data.total_experience_years
            label == matcher.job_input.experience_level
            points == matcher.result.experience_match
        IN  /\ points = 100 * ByBand(years, label)
            /\ (lower(label) = "mid" /\ years = 4) => points = 10000
            /\ (lower(label) = "mid" /\ years = 1) => points = 6000
            /\ (lower(label) = "mid" /\ years = 9) => points = 8500
            /\ lower(label) \notin KnownLabels => points = 10000

\* C15 amended: experience_match follows the band table, and is 100 for the
\* candidates of a posting with an unknown label who have at most 100 years;
\* above 100 years the rule for candidates above the band applies
C15_ExperienceBandsUpTo100 ==
    matcher.pc = "ok" =>
        LET years == matcher.resume_data.total_experience_years
            label == matcher.job_input.experience_level
            points == matcher.result.experience_match
        IN  /\ points = 100 * ByBand(years, label)
            /\ (lower(label) = "mid" /\ years = 4) => points = 10000
            /\ (lower(label) = "mid" /\ years = 1) => points = 6000
            /\ (lower(label) = "mid" /\ years = 9) => points = 8500
            /\ (lower(label) \notin KnownLabels /\ years <= 100)
                  => points = 10000
            /\ (lower(label) \notin KnownLabels /\ years > 100)
                  => points = 100 * Max(70, 100 - 5 * (years - 100))

\* a candidate below the band of a posting that writes its label in capitals
C15_Witness ==
    /\ matcher.pc = "ok"
    /\ matcher.job_input.experience_level = "MID"
    /\ matcher.resume_data.total_experience_years = 1
    /\ matcher.result.experience_match = 6000

\* the share of the required skills the candidate has, in points num/den
StrictSkills ==
    LET required == matcher.job_input.required_skills.v
    IN  IF required = <<>> THEN [num |-> 100, den |-> 1]
        ELSE [num |-> 100 * Cardinality({i \in 1..Len(required) :
                                            Has(required[i])}),
              den |-> Len(required)]

\* C16: the overall score is 0.35 skills_match + 0.25 experience_match + 0.20
\* text_similarity + 0.20 overall_fit rounded to two decimals, skills_match
\* being the share of the required skills that the result also reports
C16_WeightedSum ==
    matcher.pc = "ok" =>
        LET r == matcher.result
            rest == 25 * ByBand(matcher.resume_data.total_experience_years,
                                matcher.job_input.experience_level)
                        + 20 * r.text_similarity + 20 * r.overall_fit
        IN  /\ r.skills_match = Round2(StrictSkills.num, StrictSkills.den)
            /\ r.overall_score =
                   Round2(35 * StrictSkills.num + rest * StrictSkills.den,
                          100 * StrictSkills.den)

\* C17: when every call of the model fails, an applicant whose resume can be
\* read is ranked, with an overall score that is 0.35 skills_match + 0.25
\* experience_match + 0.20 text_similarity (to the hundredth) and nothing for
\* the model
C17_RankedWithoutModel ==
    (/\ matcher.pc \in {"ok", "failed"}
     /\ matcher.resume.readable
     /\ matcher.errors.parsing
     /\ matcher.errors.analysis) =>
        /\ matcher.pc = "ok"
        /\ matcher.result.overall_fit = 0
        /\ LET r == matcher.result
               sum == 35 * r.skills_match + 25 * r.experience_match
                          + 2000 * r.text_similarity
           IN  /\ 100 * r.overall_score - sum <= 100
               /\ sum - 100 * r.overall_score <= 100

\* the second of two runs in succession has dealt with the applicant
SecondRunEnded == matcher.pc \in {"ok", "failed"} /\ matcher.previous # NoRun

\* C18: the second of two batch runs in succession on the same posting,
\* applications and resumes ranks the applicant exactly if the first did,
\* and with the same skills and experience sub-scores and the same matching
\* and missing skills, whatever the model answers
C18_RebuildIdempotent ==
    SecondRunEnded =>
        /\ matcher.pc = matcher.previous.out
        /\ matcher.pc = "ok" =>
              /\ matcher.result.skills_match
                     = matcher.previous.result.skills_match
              /\ matcher.result.experience_match
                     = matcher.previous.result.experience_match
              /\ matcher.result.matching_skills
                     = matcher.previous.result.matching_skills
              /\ matcher.result.missing_skills
                     = matcher.previous.result.missing_skills

\* C19: a stored required_skills or preferred_skills that is not a list is
\* an empty list in the JobDescription of either batch path, and no
\* applicant with a readable resume fails on it: the applicant is scored as
\* for a posting without those skills
C19_NonListCoercedToEmpty ==
    matcher.pc \in {"input", "ok", "failed"} =>
        /\ matcher.posting.required_skills.tag # "list"
              => matcher.job_input.required_skills = List(<<>>)
        /\ matcher.posting.preferred_skills.tag # "list"
              => matcher.job_input.preferred_skills = List(<<>>)
        /\ (matcher.pc # "input" /\ matcher.resume.readable)
              => matcher.pc = "ok"
        /\ (matcher.pc = "ok" /\ matcher.posting.required_skills.tag # "list")
              => /\ matcher.result.matching_skills = <<>>
                 /\ matcher.result.missing_skills = <<>>

\* C20: the scheduled run that finds no applications closes the posting and
\* sets its flag, scores and notifies nobody; from then on no tick dispatches
\* the posting, no scheduled run gets past its first test, and the posting
\* stays closed and flagged; a scheduled run on the id of a posting that does
\* not exist leaves every table as it is
C20_NoApplicationsIsTerminal ==
    [][/\ \A e \in DOMAIN run, j \in Jobs :
             (/\ queue'[j] < queue[j]
              /\ run'[e].job_id = j
              /\ run'[e].result = "noapplicants") =>
                 /\ run'[e].pc = "done"
                 /\ job'[j].status = "closed"
                 /\ job'[j].email_sent
                 /\ run'[e].candidates = <<>>
                 /\ run'[e].notified = <<>>
                 /\ matches' = matches
                 /\ selected' = selected
       /\ \A j \in Jobs :
             (job[j].exists /\ job[j].status = "closed" /\ job[j].email_sent) =>
                 /\ queue'[j] <= queue[j]
                 /\ selected'[j] = selected[j]
                 /\ job'[j].status = "closed"
                 /\ job'[j].email_sent
                 /\ \A e \in DOMAIN run :
                       (queue'[j] < queue[j] /\ run'[e].job_id = j) =>
                           (run'[e].pc = "done" /\ run'[e].result = "already")
       /\ \A e \in DOMAIN run, j \in Jobs :
             (/\ queue'[j] < queue[j]
              /\ run'[e].job_id = j
              /\ ~ job[j].exists) =>
                 /\ run'[e].pc = "done"
                 /\ run'[e].result = "notfound"
                 /\ <<job, profile, resume, apps, matches, selected, topmail>>'
                        = <<job, profile, resume, apps, matches, selected,
                            topmail>>]_vars

\* a posting was closed by a scheduled run that found no applications, and a
\* consultant has applied to it since
C20_Witness ==
    \E e \in DOMAIN run :
        /\ run[e].result = "noapplicants"
        /\ job[run[e].job_id].status = "closed"
        /\ job[run[e].job_id].email_sent
        /\ AppsOf(run[e].job_id) # <<>>

\* the texts without a character that is no whitespace, and the texts with
\* whitespace at an end
Whitespace == {"", "  "}
Padded == {" cv ", "cv  "}

\* the method raised, or it returned nothing to read
YieldsNoText(x) == x.raises \/ x.text \in Whitespace

\* C21: extract_text calls the primary method first and the fallback method
\* if and only if the primary one yields no text (it raises, or its text is
\* empty or whitespace-only); it raises if and only if the file is missing
\* or both methods yield no text; otherwise it returns a text that is not
\* empty and has no whitespace at its ends.
C21_ExtractTextFallback ==
    matcher.pc = "extracted" =>
        LET f == matcher.file
            x == matcher.extraction
        IN  /\ f.exists =>
                  /\ x.calls \in {<<"pymupdf">>, <<"pymupdf", "pypdf2">>}
                  /\ (Len(x.calls) = 2) <=> YieldsNoText(f.pymupdf)
            /\ (x.out = "raised") <=>
                  \/ ~ f.exists
                  \/ YieldsNoText(f.pymupdf) /\ YieldsNoText(f.pypdf2)
            /\ x.out = "returned" =>
                  /\ x.text \notin Whitespace \cup Padded
                  /\ x.text = "cv"

\* the primary method yields whitespace and the fallback a padded text
C21_Witness ==
    /\ matcher.pc = "extracted"
    /\ matcher.file.exists
    /\ ~ matcher.file.pymupdf.raises
    /\ matcher.file.pymupdf.text = "  "
    /\ matcher.file.pypdf2.text = " cv "
    /\ matcher.extraction.out = "returned"
    /\ matcher.extraction.calls = <<"pymupdf", "pypdf2">>

\* C23: the final skill list of a parsed resume is the union of the
\* extracted skills and the additional skills of the model's reply, and no
\* two of its entries are equal under case-insensitive comparison.
C23_SkillsAreASet ==
    matcher.pc = "parsed" =>
        LET skills == matcher.resume_data.skills IN
        /\ Elems(skills) = matcher.extracted \cup Elems(matcher.additional)
        /\ \A i, k \in 1..Len(skills) :
              i # k => lower(skills[i]) # lower(skills[k])

\* C24: calculate_experience_years is the largest captured value, 0 when
\* nothing is captured, and the text with a further phrase never has a
\* smaller result than the text without it.
C24_ExperienceYearsIsMaximum ==
    matcher.pc = "parsed" =>
        LET years == matcher.resume_data.total_experience_years
            all == Elems(captured(matcher.text))
        IN  /\ all = {} => years = 0
            /\ all # {} => years \in all /\ \A z \in all : years >= z
            /\ matcher.earlier # NoText0 => years >= matcher.earlier.years

\* C22: process_expired_job on a posting that is flagged or not active
\* returns at once: it deletes and adds no RankedApplicantMatch row,
\* dispatches no notification and does not change the posting.
C22_ProcessedIsLeftAlone ==
    [][\A e \in DOMAIN run, j \in Jobs :
          (/\ queue'[j] < queue[j]
           /\ run'[e] # run[e]
           /\ job[j].exists
           /\ job[j].email_sent \/ job[j].status # "active") =>
              /\ run'[e].pc = "done"
              /\ run'[e].deleted = EmptyBag
              /\ run'[e].candidates = <<>>
              /\ run'[e].notified = <<>>
              /\ matches' = matches
              /\ selected' = selected
              /\ topmail' = topmail
              /\ job' = job]_vars

\* the task has returned from a flagged posting that has ranked matches
C22_Witness ==
    \E e \in DOMAIN run :
        /\ run[e].kind = "task"
        /\ run[e].result = "already"
        /\ job[run[e].job_id].exists
        /\ job[run[e].job_id].email_sent
        /\ MatchesOf(run[e].job_id) # EmptyBag

\* C25: a batch run that aborts between its DELETE and its commit leaves the
\* committed rows of the posting as they were before the run; the committed
\* rows change in no other step than a commit, and the commit replaces the
\* old rows of the posting by the complete new set at once.
C25_RebuildIsAtomic ==
    [][\A e \in DOMAIN run :
          LET j == run[e].job_id IN
          /\ (run[e].pc = "loop" /\ run'[e].pc = "failed") =>
                /\ matches' = matches
                /\ MatchesOf(j)' = run[e].deleted
          /\ (run[e].pc = "loop" /\ run'[e].pc = "loop") => matches' = matches
          /\ (run[e].pc = "loop" /\ run'[e].pc \in {"done", "notify"}) =>
                MatchesOf(j)' = Rows(j, run[e].candidates)
          /\ (run'[e] = run[e]) => matches' = matches]_vars

\* a run has aborted after its DELETE and the old rows are there
C25_Witness ==
    \E e \in DOMAIN run :
        /\ run[e].pc = "failed"
        /\ run[e].raised \in {"write", "logging"}
        /\ MatchesOf(run[e].job_id) # EmptyBag

\* C26: when a batch run commits, the committed rows of the posting are the
\* rows of the ranking it returns: the same candidates with the same
\* scores, none persisted without being returned and none returned without
\* being persisted.
C26_PersistedIsReturned ==
    [][\A e \in DOMAIN run :
          (run[e].pc = "loop" /\ run'[e].pc \in {"done", "notify"}) =>
              MatchesOf(run[e].job_id)' =
                  Rows(run[e].job_id, run'[e].ranking)]_vars

\* C27: on the scheduled path a selection notification is dispatched only
\* after the commit of the ranked matches and only to a candidate who has a
\* committed row for the posting, and the posting is marked processed only
\* after every notification of the run was dispatched.
C27_CommitNotifyMark ==
    [][\A e \in DOMAIN run :
          LET r == run[e]
              j == r.job_id
          IN
          /\ (r.kind = "task" /\ Len(run'[e].notified) > Len(r.notified)) =>
                /\ r.pc = "notify"
                /\ Rows(j, r.ranking) \sqsubseteq matches
                /\ \E row \in BagToSet(MatchesOf(j)) :
                      row.consultant_id =
                          run'[e].notified[Len(run'[e].notified)]
          /\ (r.kind = "task" /\ run'[e].result = "processed"
                /\ r.result # "processed") =>
                /\ r.pc = "notify"
                /\ Len(r.notified) = Min(Len(r.ranking), job[j].max_candidates)
                /\ \A i \in 1..Len(r.notified) :
                      r.notified[i] = r.ranking[i].consultant_id]_vars

\* C28: a posting whose flag email_sent is set has status processed or
\* closed, never active.
C28_FlaggedIsNotActive ==
    \A j \in Jobs :
        (job[j].exists /\ job[j].email_sent) =>
            job[j].status \in {"processed", "closed"}

\* C30: no step of a rank_job_applicants request changes a posting's status
\* or flag or dispatches a notification, it changes the posting's ranked
\* matches at most, so the posting stays as eligible for the scheduled path
\* as it was; the request gets to its DELETE only for a posting that exists
\* and has applications.
C30_OnDemandFrame ==
    [][\A e \in DOMAIN run :
          (run'[e] # run[e] /\ run'[e].kind = "request") =>
              /\ job' = job
              /\ queue' = queue
              /\ selected' = selected
              /\ topmail' = topmail
              /\ run'[e].notified = <<>>
              /\ \A j \in Jobs : Expired(j)' = Expired(j)
              /\ \A j \in Jobs \ {run'[e].job_id} :
                    MatchesOf(j)' = MatchesOf(j)
              /\ (run[e].kind # "request" \/ run[e].pc # "loop") =>
                    /\ job[run'[e].job_id].exists
                    /\ AppsOf(run'[e].job_id) # <<>>
                    /\ matches' = matches]_vars

\* a request has replaced the matches of a posting before its deadline
C30_Witness ==
    \E e \in DOMAIN run :
        /\ run[e].kind = "request"
        /\ run[e].result = "returned"
        /\ run[e].ranking # <<>>
        /\ job[run[e].job_id].status = "active"
        /\ ~ job[run[e].job_id].email_sent
        /\ ~ job[run[e].job_id].expired

\* C29: under weak fairness of the tick and of the worker every posting that
\* is active, unflagged and past its deadline becomes processed or closed at
\* some time (or is deleted); an execution that ends in its error branch
\* leaves the posting as it was, so that the next tick selects it again.
C29_EventuallyProcessed ==
    /\ \A j \in Jobs :
          Expired(j) ~> (\/ ~ job[j].exists
                         \/ job[j].status \in {"processed", "closed"})
    /\ [][\A e \in DOMAIN run :
             (run[e].pc # "failed" /\ run'[e].pc = "failed") =>
                 /\ job' = job
                 /\ Expired(run[e].job_id)']_vars
====
